---- MODULE Spec2Model ----
(***************************************************************************)
(* Room admission of vanishr: the atomic Lua script LUA_JOIN and its       *)
(* caller proxy() (src/src/proxy.ts), the read-then-write middleware()     *)
(* (src/src/middleware.ts), the earlier proxy() (src/unnamed/part_001),    *)
(* and the reader parseConnected with the re-validation authMiddleware     *)
(* (src/unnamed/part_000).                                                 *)
(*                                                                         *)
(* A text (a Redis string, a token, a cookie value) is a sequence of       *)
(* one-character strings.  A JSON / JavaScript / Lua value is a record     *)
(* [k, t, xs]: k is its kind, t its text (strings, numbers, member keys)   *)
(* and xs its children (array elements, object members, a member's value). *)
(***************************************************************************)
EXTENDS Integers, Sequences, FiniteSets, TLC

----------------------------------------------------------------------------
(* Values *)

Str(t)    == [k |-> "str",  t |-> t,    xs |-> <<>>]
Num(t)    == [k |-> "num",  t |-> t,    xs |-> <<>>]
Arr(xs)   == [k |-> "arr",  t |-> <<>>, xs |-> xs]
Obj(ms)   == [k |-> "obj",  t |-> <<>>, xs |-> ms]
Mem(t, x) == [k |-> "mem",  t |-> t,    xs |-> <<x>>]
Null      == [k |-> "null", t |-> <<>>, xs |-> <<>>]

Digits == {"0", "1", "2", "3", "4", "5", "6", "7", "8", "9"}

Fail == [ok |-> FALSE, v |-> Null, i |-> 0]

Done(val, next) == [ok |-> TRUE, v |-> val, i |-> next]

----------------------------------------------------------------------------
(* JSON text -> value: JSON.parse and cjson.decode, over texts without     *)
(* white space.  String escapes: \" \\ \/ ; any other escape is an error.  *)

RECURSIVE ParseString(_, _, _)
ParseString(s, i, acc) ==
    IF i > Len(s) THEN Fail
    ELSE IF s[i] = "\"" THEN Done(Str(acc), i + 1)
    ELSE IF s[i] = "\\"
         THEN IF i + 1 <= Len(s) /\ s[i + 1] \in {"\"", "\\", "/"}
              THEN ParseString(s, i + 2, Append(acc, s[i + 1]))
              ELSE Fail
    ELSE ParseString(s, i + 1, Append(acc, s[i]))

RECURSIVE ParseNumber(_, _, _)
ParseNumber(s, i, acc) ==
    IF i <= Len(s) /\ s[i] \in Digits
    THEN ParseNumber(s, i + 1, Append(acc, s[i]))
    ELSE IF acc = <<>> \/ (Len(acc) > 1 /\ acc[1] = "0") THEN Fail
    ELSE Done(Num(acc), i)

RECURSIVE ParseValue(_, _)
RECURSIVE ParseElems(_, _, _)
RECURSIVE ParseMembers(_, _, _)

ParseValue(s, i) ==
    IF i > Len(s) THEN Fail
    ELSE IF s[i] = "\"" THEN ParseString(s, i + 1, <<>>)
    ELSE IF s[i] \in Digits THEN ParseNumber(s, i, <<>>)
    ELSE IF s[i] = "["
         THEN IF i + 1 <= Len(s) /\ s[i + 1] = "]"
              THEN Done(Arr(<<>>), i + 2)
              ELSE ParseElems(s, i + 1, <<>>)
    ELSE IF s[i] = "{"
         THEN IF i + 1 <= Len(s) /\ s[i + 1] = "}"
              THEN Done(Obj(<<>>), i + 2)
              ELSE ParseMembers(s, i + 1, <<>>)
    ELSE IF i + 3 <= Len(s) /\ SubSeq(s, i, i + 3) = <<"n", "u", "l", "l">>
         THEN Done(Null, i + 4)
    ELSE Fail

ParseElems(s, i, acc) ==
    LET r == ParseValue(s, i) IN
    IF ~r.ok \/ r.i > Len(s) THEN Fail
    ELSE IF s[r.i] = "," THEN ParseElems(s, r.i + 1, Append(acc, r.v))
    ELSE IF s[r.i] = "]" THEN Done(Arr(Append(acc, r.v)), r.i + 1)
    ELSE Fail

ParseMembers(s, i, acc) ==
    IF i > Len(s) \/ s[i] # "\"" THEN Fail
    ELSE LET key == ParseString(s, i + 1, <<>>) IN
         IF ~key.ok \/ key.i > Len(s) \/ s[key.i] # ":" THEN Fail
         ELSE LET r == ParseValue(s, key.i + 1) IN
              IF ~r.ok \/ r.i > Len(s) THEN Fail
              ELSE IF s[r.i] = ","
                   THEN ParseMembers(s, r.i + 1, Append(acc, Mem(key.v.t, r.v)))
              ELSE IF s[r.i] = "}"
                   THEN Done(Obj(Append(acc, Mem(key.v.t, r.v))), r.i + 1)
              ELSE Fail

\* The whole text must be one value.
JSONparse(s) ==
    LET r == ParseValue(s, 1) IN
    IF r.ok /\ r.i = Len(s) + 1 THEN r ELSE Fail

----------------------------------------------------------------------------
(* value -> JSON text: JSON.stringify (slash = FALSE) and cjson.encode     *)
(* (slash = TRUE: cjson also writes "/" as "\/").                          *)

RECURSIVE EscapeChars(_, _)
EscapeChars(t, slash) ==
    IF t = <<>> THEN <<>>
    ELSE LET c == Head(t) IN
         (IF c \in {"\"", "\\"} \/ (slash /\ c = "/") THEN <<"\\", c>> ELSE <<c>>)
         \o EscapeChars(Tail(t), slash)

Quote(t, slash) == <<"\"">> \o EscapeChars(t, slash) \o <<"\"">>

RECURSIVE Encode(_, _)
RECURSIVE EncodeElems(_, _)
RECURSIVE EncodeMembers(_, _)

Encode(x, slash) ==
    CASE x.k = "str"  -> Quote(x.t, slash)
      [] x.k = "num"  -> x.t
      [] x.k = "null" -> <<"n", "u", "l", "l">>
      [] x.k = "arr"  -> <<"[">> \o EncodeElems(x.xs, slash) \o <<"]">>
      [] x.k = "obj"  -> <<"{">> \o EncodeMembers(x.xs, slash) \o <<"}">>

EncodeElems(xs, slash) ==
    IF xs = <<>> THEN <<>>
    ELSE Encode(Head(xs), slash)
         \o (IF Len(xs) > 1 THEN <<",">> ELSE <<>>)
         \o EncodeElems(Tail(xs), slash)

EncodeMembers(ms, slash) ==
    IF ms = <<>> THEN <<>>
    ELSE Quote(Head(ms).t, slash) \o <<":">> \o Encode(Head(ms).xs[1], slash)
         \o (IF Len(ms) > 1 THEN <<",">> ELSE <<>>)
         \o EncodeMembers(Tail(ms), slash)

JSONstringify(x) == Encode(x, FALSE)

----------------------------------------------------------------------------
(* The store: one Redis hash per room key meta:<roomId>.  A hash that does *)
(* not exist has no fields; connected is a Redis string (a text).          *)

Rooms == {"r1", "r2"}

NoRoom == [exists |-> FALSE, has |-> FALSE, connected |-> <<>>, createdAt |-> <<>>]

Room(text) == [exists |-> TRUE, has |-> TRUE, connected |-> text, createdAt |-> <<"7">>]

RoomNoField == [exists |-> TRUE, has |-> FALSE, connected |-> <<>>, createdAt |-> <<"7">>]

\* HSetConnected as a write of the whole hash (DEL, then HSET).
HSetConnectedOnly(h, text) ==
    [exists |-> TRUE, has |-> TRUE, connected |-> text, createdAt |-> <<>>]

\* HSET key connected text: the other fields of the hash stay.
HSetConnected(h, text) ==
    [exists |-> TRUE, has |-> TRUE, connected |-> text, createdAt |-> h.createdAt]

----------------------------------------------------------------------------
(* LUA_JOIN *)

\* LuaConnected without the decode of line 24: always the empty table.
LuaConnectedEmpty(h) == Arr(<<>>)

\* lines 20-28: the Lua table the script works on.  cjson.decode gives a
\* table for a JSON array and for a JSON object; an empty array and an
\* empty object are the same empty table.
LuaConnected(h) ==
    IF ~h.has THEN Arr(<<>>)
    ELSE LET p == JSONparse(h.connected) IN
         IF p.ok /\ p.v.k \in {"arr", "obj"}
         THEN (IF p.v.xs = <<>> THEN Arr(<<>>) ELSE p.v)
         ELSE Arr(<<>>)

\* ipairs: the values at keys 1, 2, ...; the keys of a decoded JSON object
\* are strings, so it yields nothing there.
LuaIpairs(tbl) == IF tbl.k = "arr" THEN tbl.xs ELSE <<>>

\* LuaDistinctCount as the raw length, #connected.
LuaRawLength(xs) == Len(xs)

\* lines 31-38: seen[v] is keyed by value for strings, numbers and
\* cjson.null, and by identity for nested tables.
LuaDistinctCount(xs) ==
    Cardinality({xs[i] : i \in {j \in 1..Len(xs) : xs[j].k \notin {"arr", "obj"}}})
    + Cardinality({j \in 1..Len(xs) : xs[j].k \in {"arr", "obj"}})

InsertAt(xs, i, x) == SubSeq(xs, 1, i - 1) \o <<x>> \o SubSeq(xs, i, Len(xs))

\* LuaInsertEncode that leaves out a token the table already holds.
LuaInsertEncodeDedup(tbl, token) ==
    IF tbl.k = "arr"
    THEN {Encode(Arr(IF \E i \in 1..Len(tbl.xs) : tbl.xs[i] = Str(token)
                     THEN tbl.xs ELSE Append(tbl.xs, Str(token))), TRUE)}
    ELSE {Encode(Obj(InsertAt(tbl.xs, i, Mem(<<"1">>, Str(token)))), TRUE) :
            i \in 1..(Len(tbl.xs) + 1)}

\* line 42-43: table.insert writes key #connected + 1.  An array table
\* stays an array; a table with string keys becomes a mixed table, which
\* cjson.encode writes as an object with the key "1", in the table's
\* unspecified iteration order.
LuaInsertEncode(tbl, token) ==
    IF tbl.k = "arr"
    THEN {Encode(Arr(Append(tbl.xs, Str(token))), TRUE)}
    ELSE {Encode(Obj(InsertAt(tbl.xs, i, Mem(<<"1">>, Str(token)))), TRUE) :
            i \in 1..(Len(tbl.xs) + 1)}

\* LuaJoin with lines 42-43 moved before the check of line 40.
LuaJoinAppendFirst(h, token, n) ==
    IF ~h.exists THEN {[result |-> -1, hash |-> h]}
    ELSE LET connected == LuaConnected(h) IN
         {[result |-> IF LuaDistinctCount(LuaIpairs(connected)) >= n THEN 0 ELSE 1,
           hash |-> HSetConnected(h, text)] :
             text \in LuaInsertEncode(connected, token)}

\* LuaJoin without the EXISTS check of lines 17-18.
LuaJoinNoExists(h, token, n) ==
    IF LuaDistinctCount(LuaIpairs(LuaConnected(h))) >= n
    THEN {[result |-> 0, hash |-> h]}
    ELSE {[result |-> 1, hash |-> HSetConnected(h, text)] :
            text \in LuaInsertEncode(LuaConnected(h), token)}

\* LuaJoin without the HSET of line 43.
LuaJoinNoWrite(h, token, n) ==
    IF ~h.exists THEN {[result |-> -1, hash |-> h]}
    ELSE IF LuaDistinctCount(LuaIpairs(LuaConnected(h))) >= n
         THEN {[result |-> 0, hash |-> h]}
         ELSE {[result |-> 1, hash |-> h]}

\* LuaJoin with `count > n` in line 40.
LuaJoinOffByOne(h, token, n) ==
    IF ~h.exists THEN {[result |-> -1, hash |-> h]}
    ELSE LET connected == LuaConnected(h) IN
         IF LuaDistinctCount(LuaIpairs(connected)) > n
         THEN {[result |-> 0, hash |-> h]}
         ELSE {[result |-> 1, hash |-> HSetConnected(h, text)] :
                 text \in LuaInsertEncode(connected, token)}

\* The script as a whole: the set of [result, hash] it can end with.
LuaJoin(h, token, n) ==
    IF ~h.exists THEN {[result |-> -1, hash |-> h]}
    ELSE LET connected == LuaConnected(h) IN
         IF LuaDistinctCount(LuaIpairs(connected)) >= n
         THEN {[result |-> 0, hash |-> h]}
         ELSE {[result |-> 1, hash |-> HSetConnected(h, text)] :
                 text \in LuaInsertEncode(connected, token)}

----------------------------------------------------------------------------
(* Requests.  Each request is one invocation of the deployed handler; it   *)
(* addresses /room/<room> and carries at most one cookie                   *)
(* x-auth-token-<room>.                                                    *)

MaxRequests == 3

\* proxy.ts line 76, middleware.ts line 77, part_001 line 37
CapacityBound == 2

MiddlewareCap == 2

LegacyCap == 2

Requests == 1..MaxRequests

\* ARGV[2] of the script: proxy() passes "2"; the script takes any number.
Bounds == 0..(CapacityBound + 1)

NoCookie == [has |-> FALSE, val |-> <<>>]

Cookie(t) == [has |-> TRUE, val |-> t]

\* What a browser can hold before the first request: no cookie, or a token
\* (held by some of the seeded rooms, by others not).
InitialCookies == {NoCookie, Cookie(<<"a">>)}

\* `if (existingToken)`: undefined and "" are falsy.
Truthy(ck) == ck.has /\ ck.val # <<>>

\* nanoid(): a token that no other request and no stored sequence holds.
nanoid(c) == <<"n", <<"1", "2", "3", "4", "5", "6", "7", "8", "9">>[c]>>

NoResponse == [kind |-> "none", cookie |-> NoCookie]

Response(kind) == [kind |-> kind, cookie |-> NoCookie]

\* NextResponse.next() with response.cookies.set(cookieName, token, ...)
NextWithCookie(token) == [kind |-> "next", cookie |-> Cookie(token)]

\* The store calls a request has issued, and how many of them were rejected.
NoCalls == [reads |-> 0, evals |-> 0, writes |-> 0, rejected |-> 0]

IdleRequest ==
    [pc |-> "idle", room |-> "r1", cookie |-> NoCookie, token |-> <<>>,
     result |-> <<>>, local |-> <<>>, calls |-> NoCalls, resp |-> NoResponse]

\* store: the Redis hashes; seed: the store before the first request;
\* variant: the handler that is deployed; bound: ARGV[2]; req: the requests;
\* norm: one call of a reader of connected (used by SpecNormalize only).
VARIABLES store, seed, variant, bound, req, norm

vars == <<store, seed, variant, bound, req, norm>>

\* What no request changes.
fixed == <<seed, variant, bound, norm>>

\* What a request can carry: an initial cookie, or a cookie that a response
\* has set.
Cookies == InitialCookies \cup {req[d].resp.cookie : d \in Requests}

NormIdle == [pc |-> "idle", s |-> <<>>, text |-> <<>>, fromArray |-> <<>>,
             fromString |-> <<>>, mwFromArray |-> <<>>, mwFromString |-> <<>>]

\* The rooms before the first request: r1 in every shape the claims speak
\* of, r2 absent or fresh.
SeedTexts ==
    { <<"[", "]">>,
      JSONstringify(Arr(<<Str(<<"a">>)>>)),
      JSONstringify(Arr(<<Str(<<"a">>), Str(<<"a">>)>>)),
      JSONstringify(Arr(<<Str(<<"a">>), Str(<<"c">>)>>)),
      <<"{", "}">>,
      <<"[", "\"", "a">> }

SeedStores ==
    { f \in [Rooms -> {NoRoom, RoomNoField} \cup {Room(t) : t \in SeedTexts}] :
        f["r2"] \in {NoRoom, Room(<<"[", "]">>)} }

Init ==
    /\ store \in SeedStores
    /\ seed = store
    /\ variant \in {"proxy", "middleware", "legacy"}
    /\ bound \in (IF variant = "proxy" THEN Bounds ELSE {CapacityBound})
    /\ req = [c \in Requests |-> IdleRequest]
    /\ norm = NormIdle

\* The requests a variant is explored with: the earlier proxy() reads the
\* store in two shapes and branches the most, so it gets one fewer.
Arriving == IF variant = "legacy" THEN 1..(MaxRequests - 1) ELSE Requests

\* Requests are numbered in the order of their first step.
CanStart(c) ==
    /\ c \in Arriving
    /\ req[c].pc = "idle"
    /\ \A d \in Requests : d < c => req[d].pc # "idle"

Start(c, r, ck) == [req[c] EXCEPT !.room = r, !.cookie = ck]

----------------------------------------------------------------------------
(* proxy() of src/src/proxy.ts *)

\* ProxyResponse without the `result === 0` branch of lines 87-93.
ProxyResponseNoFullCheck(result, newToken) ==
    IF result = -1 THEN Response("notFound") ELSE NextWithCookie(newToken)

\* lines 79-109: the script's result as the response.
ProxyResponse(result, newToken) ==
    IF result = -1 THEN Response("notFound")
    ELSE IF result = 0 THEN Response("roomFull")
    ELSE NextWithCookie(newToken)

\* ProxyFastPath after an hgetall, as in middleware.ts lines 25-35 and 64-69:
\* the room is read before the cookie is looked at.
ProxyFastPathReads(c) ==
    /\ variant = "proxy"
    /\ CanStart(c)
    /\ \E r \in Rooms, ck \in Cookies :
         /\ Truthy(ck)
         /\ req' = [req EXCEPT ![c] =
                      [Start(c, r, ck) EXCEPT
                          !.pc = "done",
                          !.calls.reads = @ + 1,
                          !.resp = IF store[r].exists THEN Response("next")
                                   ELSE Response("notFound")]]
    /\ UNCHANGED <<store, fixed>>

\* lines 59-64: the fast path.
ProxyFastPath(c) ==
    /\ variant = "proxy"
    /\ CanStart(c)
    /\ \E r \in Rooms, ck \in Cookies :
         /\ Truthy(ck)
         /\ req' = [req EXCEPT ![c] =
                      [Start(c, r, ck) EXCEPT !.pc = "done", !.resp = Response("next")]]
    /\ UNCHANGED <<store, fixed>>

\* lines 71-77: the slow path up to the script's reply.  The store runs the
\* script as one step.
ProxyEval(c) ==
    /\ variant = "proxy"
    /\ CanStart(c)
    /\ \E r \in Rooms, ck \in Cookies :
         /\ ~Truthy(ck)
         /\ \E out \in LuaJoin(store[r], nanoid(c), bound) :
              /\ store' = [store EXCEPT ![r] = out.hash]
              /\ req' = [req EXCEPT ![c] =
                           [Start(c, r, ck) EXCEPT !.pc = "evaluated",
                                                   !.token = nanoid(c),
                                                   !.result = <<out.result>>,
                                                   !.calls.evals = @ + 1]]
    /\ UNCHANGED fixed

\* ProxyEvalFails with the rejection caught and answered as room full.
ProxyEvalFailsDenies(c) ==
    /\ variant = "proxy"
    /\ CanStart(c)
    /\ \E r \in Rooms, ck \in Cookies :
         /\ ~Truthy(ck)
         /\ req' = [req EXCEPT ![c] =
                      [Start(c, r, ck) EXCEPT !.pc = "done",
                                              !.token = nanoid(c),
                                              !.calls.evals = @ + 1,
                                              !.calls.rejected = @ + 1,
                                              !.resp = Response("roomFull")]]
    /\ UNCHANGED <<store, fixed>>

\* lines 73-77: redis.eval rejects.  The request or its reply was lost: the
\* store has run the script, or it has not.  The rejection is not caught.
ProxyEvalFails(c) ==
    /\ variant = "proxy"
    /\ CanStart(c)
    /\ \E r \in Rooms, ck \in Cookies :
         /\ ~Truthy(ck)
         /\ \E h \in {store[r]} \cup {out.hash : out \in LuaJoin(store[r], nanoid(c), bound)} :
              store' = [store EXCEPT ![r] = h]
         /\ req' = [req EXCEPT ![c] =
                      [Start(c, r, ck) EXCEPT !.pc = "done",
                                              !.token = nanoid(c),
                                              !.calls.evals = @ + 1,
                                              !.calls.rejected = @ + 1,
                                              !.resp = Response("error")]]
    /\ UNCHANGED fixed

\* lines 79-109
ProxyRespond(c) ==
    /\ variant = "proxy"
    /\ req[c].pc = "evaluated"
    /\ req' = [req EXCEPT ![c].pc = "done",
                          ![c].resp = ProxyResponse(req[c].result[1], req[c].token)]
    /\ UNCHANGED <<store, fixed>>

ProxyStep(c) ==
    \/ ProxyFastPath(c)
    \/ ProxyEval(c)
    \/ ProxyEvalFails(c)
    \/ ProxyRespond(c)

NextProxy == \E c \in Requests : ProxyStep(c)

----------------------------------------------------------------------------
(* What the Upstash client hands to JavaScript *)

\* hget / hgetall give a field's value deserialized when it is JSON, or as
\* the raw string.
HGetShapes(text) ==
    {Str(text)} \cup (IF JSONparse(text).ok THEN {JSONparse(text).v} ELSE {})

\* hgetall: null for a key that does not exist, else the hash with each
\* field in one of its shapes.  absent stands for a field that is not there.
Absent == [k |-> "absent", t |-> <<>>, xs |-> <<>>]

HGetAll(h) ==
    IF ~h.exists THEN {[isNull |-> TRUE, connected |-> Absent]}
    ELSE IF ~h.has THEN {[isNull |-> FALSE, connected |-> Absent]}
    ELSE {[isNull |-> FALSE, connected |-> x] : x \in HGetShapes(h.connected)}

\* JavaScript truthiness of a value.
JsTruthy(x) ==
    CASE x.k = "str" -> x.t # <<>>
      [] x.k = "num" -> x.t # <<"0">>
      [] x.k \in {"arr", "obj"} -> TRUE
      [] OTHER -> FALSE

\* new Set(xs).size: strings, numbers and null by value, arrays and objects
\* by identity.
JsDistinctCount(xs) ==
    Cardinality({xs[i] : i \in {j \in 1..Len(xs) : xs[j].k \notin {"arr", "obj"}}})
    + Cardinality({j \in 1..Len(xs) : xs[j].k \in {"arr", "obj"}})

RECURSIVE SelectTruthy(_)
SelectTruthy(xs) ==
    IF xs = <<>> THEN <<>>
    ELSE (IF JsTruthy(Head(xs)) THEN <<Head(xs)>> ELSE <<>>) \o SelectTruthy(Tail(xs))

----------------------------------------------------------------------------
(* middleware() of src/src/middleware.ts *)

\* lines 42-55
MwNormalize(x) ==
    IF ~JsTruthy(x) THEN <<>>
    ELSE IF x.k = "arr" THEN x.xs
    ELSE IF x.k = "str"
         THEN LET p == JSONparse(x.t) IN
              IF p.ok /\ p.v.k = "arr" THEN p.v.xs ELSE <<>>
    ELSE <<>>

\* line 75
MwDistinctUsers(connected) == JsDistinctCount(SelectTruthy(connected))

\* lines 25-82: from the hgetall reply to the first return or to the hset.
MwAfterRead(c, r, ck, meta) ==
    LET connected == MwNormalize(meta.connected)
        q == [Start(c, r, ck) EXCEPT !.calls.reads = @ + 1] IN
    IF meta.isNull
    THEN [q EXCEPT !.pc = "done", !.resp = Response("notFound")]
    ELSE IF Truthy(ck)
    THEN [q EXCEPT !.pc = "done", !.resp = Response("next")]
    ELSE IF MwDistinctUsers(connected) >= MiddlewareCap
    THEN [q EXCEPT !.pc = "done", !.resp = Response("roomFull")]
    ELSE [q EXCEPT !.pc = "writing", !.token = nanoid(c),
                   !.local = Append(connected, Str(nanoid(c)))]

MwRead(c) ==
    /\ variant = "middleware"
    /\ CanStart(c)
    /\ \E r \in Rooms, ck \in Cookies :
         \E meta \in HGetAll(store[r]) :
            req' = [req EXCEPT ![c] = MwAfterRead(c, r, ck, meta)]
    /\ UNCHANGED <<store, fixed>>

\* line 25: redis.hgetall rejects; nothing catches it.
MwReadFails(c) ==
    /\ variant = "middleware"
    /\ CanStart(c)
    /\ \E r \in Rooms, ck \in Cookies :
         req' = [req EXCEPT ![c] =
                   [Start(c, r, ck) EXCEPT !.pc = "done", !.calls.reads = @ + 1,
                                           !.calls.rejected = @ + 1,
                                           !.resp = Response("error")]]
    /\ UNCHANGED <<store, fixed>>

\* lines 92-94: the store runs the hset.
MwWrite(c) ==
    /\ variant = "middleware"
    /\ req[c].pc = "writing"
    /\ store' = [store EXCEPT ![req[c].room] =
                   HSetConnected(@, JSONstringify(Arr(req[c].local)))]
    /\ req' = [req EXCEPT ![c].pc = "written", ![c].local = <<>>,
                          ![c].calls.writes = @ + 1]
    /\ UNCHANGED fixed

\* lines 92-94: redis.hset rejects, with the write done or not.
MwWriteFails(c) ==
    /\ variant = "middleware"
    /\ req[c].pc = "writing"
    /\ \E h \in {store[req[c].room],
                 HSetConnected(store[req[c].room], JSONstringify(Arr(req[c].local)))} :
         store' = [store EXCEPT ![req[c].room] = h]
    /\ req' = [req EXCEPT ![c].pc = "done", ![c].calls.writes = @ + 1,
                          ![c].calls.rejected = @ + 1,
                          ![c].local = <<>>, ![c].resp = Response("error")]
    /\ UNCHANGED fixed

\* lines 99-108
MwRespond(c) ==
    /\ variant = "middleware"
    /\ req[c].pc = "written"
    /\ req' = [req EXCEPT ![c].pc = "done", ![c].local = <<>>,
                          ![c].resp = NextWithCookie(req[c].token)]
    /\ UNCHANGED <<store, fixed>>

MwStep(c) ==
    \/ MwRead(c)
    \/ MwReadFails(c)
    \/ MwWrite(c)
    \/ MwWriteFails(c)
    \/ MwRespond(c)

NextMiddleware == \E c \in Requests : MwStep(c)

----------------------------------------------------------------------------
(* proxy() of src/unnamed/part_001, the earlier variant.  Its cookie is    *)
(* named x-auth-token for every room.                                      *)

ObjectObject ==
    <<"[", "o", "b", "j", "e", "c", "t", " ", "O", "b", "j", "e", "c", "t", "]">>

\* String(x), which JSON.parse applies to an argument that is no string.
RECURSIVE JsToString(_)
RECURSIVE JsJoin(_)
JsToString(x) ==
    CASE x.k \in {"str", "num"} -> x.t
      [] x.k = "null" -> <<"n", "u", "l", "l">>
      [] x.k = "arr" -> JsJoin(x.xs)
      [] OTHER -> ObjectObject

JsJoin(xs) ==
    IF xs = <<>> THEN <<>>
    ELSE (IF Head(xs).k = "null" THEN <<>> ELSE JsToString(Head(xs)))
         \o (IF Len(xs) > 1 THEN <<",">> ELSE <<>>)
         \o JsJoin(Tail(xs))

\* lines 22-27: whatever JSON.parse gives, array or not.
LegacyParse(x) ==
    IF ~JsTruthy(x) THEN Arr(<<>>)
    ELSE LET p == JSONparse(JsToString(x)) IN
         IF p.ok THEN p.v ELSE Arr(<<>>)

IsSubstring(t, u) ==
    \E i \in 0..(Len(u) - Len(t)) : SubSeq(u, i + 1, i + Len(t)) = t

\* connected.includes(token): defined on arrays and on strings.
LegacyIncludes(connected, token) ==
    CASE connected.k = "arr" -> \E i \in 1..Len(connected.xs) : connected.xs[i] = Str(token)
      [] connected.k = "str" -> IsSubstring(token, connected.t)
      [] OTHER -> FALSE

\* connected.length; undefined compares false with 2.
LegacyFull(connected) ==
    CASE connected.k = "arr" -> Len(connected.xs) >= LegacyCap
      [] connected.k = "str" -> Len(connected.t) >= LegacyCap
      [] OTHER -> FALSE

\* [...connected, token]
LegacySpread(connected, token) ==
    IF connected.k = "arr" THEN Append(connected.xs, Str(token))
    ELSE Append([i \in 1..Len(connected.t) |-> Str(<<connected.t[i]>>)], Str(token))

\* lines 13-52: from the hgetall reply to the first return, to a TypeError
\* or to the hset.
LegacyAfterRead(c, r, ck, meta) ==
    LET connected == LegacyParse(meta.connected)
        q == [Start(c, r, ck) EXCEPT !.calls.reads = @ + 1]
        failed == [q EXCEPT !.pc = "done", !.resp = Response("error")] IN
    IF meta.isNull
    THEN [q EXCEPT !.pc = "done", !.resp = Response("notFound")]
    ELSE IF Truthy(ck) /\ connected.k \notin {"arr", "str"} THEN failed
    ELSE IF Truthy(ck) /\ LegacyIncludes(connected, ck.val)
    THEN [q EXCEPT !.pc = "done", !.resp = Response("next")]
    ELSE IF connected.k = "null" THEN failed
    ELSE IF LegacyFull(connected)
    THEN [q EXCEPT !.pc = "done", !.resp = Response("roomFull")]
    ELSE IF connected.k \notin {"arr", "str"} THEN failed
    ELSE [q EXCEPT !.pc = "writing", !.token = nanoid(c),
                   !.local = LegacySpread(connected, nanoid(c))]

LegacyRead(c) ==
    /\ variant = "legacy"
    /\ CanStart(c)
    /\ \E r \in Rooms, ck \in Cookies :
         \E meta \in HGetAll(store[r]) :
            req' = [req EXCEPT ![c] = LegacyAfterRead(c, r, ck, meta)]
    /\ UNCHANGED <<store, fixed>>

\* line 13: redis.hgetall rejects.
LegacyReadFails(c) ==
    /\ variant = "legacy"
    /\ CanStart(c)
    /\ \E r \in Rooms, ck \in Cookies :
         req' = [req EXCEPT ![c] =
                   [Start(c, r, ck) EXCEPT !.pc = "done", !.calls.reads = @ + 1,
                                           !.calls.rejected = @ + 1,
                                           !.resp = Response("error")]]
    /\ UNCHANGED <<store, fixed>>

\* lines 54-56: the store runs the hset; the value is already a string.
LegacyWrite(c) ==
    /\ variant = "legacy"
    /\ req[c].pc = "writing"
    /\ store' = [store EXCEPT ![req[c].room] =
                   HSetConnected(@, JSONstringify(Arr(req[c].local)))]
    /\ req' = [req EXCEPT ![c].pc = "written", ![c].local = <<>>,
                          ![c].calls.writes = @ + 1]
    /\ UNCHANGED fixed

\* lines 54-56: redis.hset rejects, with the write done or not; the response
\* built in lines 42-50 is dropped.
LegacyWriteFails(c) ==
    /\ variant = "legacy"
    /\ req[c].pc = "writing"
    /\ \E h \in {store[req[c].room],
                 HSetConnected(store[req[c].room], JSONstringify(Arr(req[c].local)))} :
         store' = [store EXCEPT ![req[c].room] = h]
    /\ req' = [req EXCEPT ![c].pc = "done", ![c].calls.writes = @ + 1,
                          ![c].calls.rejected = @ + 1,
                          ![c].local = <<>>, ![c].resp = Response("error")]
    /\ UNCHANGED fixed

\* line 58
LegacyRespond(c) ==
    /\ variant = "legacy"
    /\ req[c].pc = "written"
    /\ req' = [req EXCEPT ![c].pc = "done", ![c].local = <<>>,
                          ![c].resp = NextWithCookie(req[c].token)]
    /\ UNCHANGED <<store, fixed>>

LegacyStep(c) ==
    \/ LegacyRead(c)
    \/ LegacyReadFails(c)
    \/ LegacyWrite(c)
    \/ LegacyWriteFails(c)
    \/ LegacyRespond(c)

NextLegacy == \E c \in Requests : LegacyStep(c)

----------------------------------------------------------------------------------------------------------------------------------------------------
(* parseConnected of src/unnamed/part_000 *)

\* parseConnected without the string branch of lines 24-31.
parseConnectedArrayOnly(raw) == IF raw.k = "arr" THEN raw.xs ELSE <<>>

\* lines 22-33
parseConnected(raw) ==
    IF raw.k = "arr" THEN raw.xs
    ELSE IF raw.k = "str"
         THEN LET p == JSONparse(raw.t) IN
              IF p.ok /\ p.v.k = "arr" THEN p.v.xs ELSE <<>>
    ELSE <<>>

----------------------------------------------------------------------------
(* One call of each reader on a token sequence s, handed over once as an   *)
(* array and once as the JSON text of s, written by JSON.stringify (hset)  *)
(* or by cjson.encode (the script).                                        *)

MaxLen == 2

NormTokens == {<<>>, <<"a">>, <<"a", "/">>, <<"\"">>, <<"\\", "a">>, <<"[", ",">>}

RECURSIVE SeqsUpTo(_, _)
SeqsUpTo(S, n) ==
    IF n = 0 THEN {<<>>}
    ELSE LET shorter == SeqsUpTo(S, n - 1) IN
         shorter \cup {Append(q, x) : q \in shorter, x \in S}

StrSeq(s) == [i \in 1..Len(s) |-> Str(s[i])]

InitNormalize ==
    /\ store = [r \in Rooms |-> NoRoom]
    /\ seed = store
    /\ variant = "proxy"
    /\ bound = CapacityBound
    /\ req = [c \in Requests |-> IdleRequest]
    /\ \E s \in SeqsUpTo(NormTokens, MaxLen), slash \in BOOLEAN :
         norm = [NormIdle EXCEPT !.pc = "in", !.s = s,
                                 !.text = Encode(Arr(StrSeq(s)), slash)]

Normalize ==
    /\ norm.pc = "in"
    /\ norm' = [norm EXCEPT !.pc = "out",
                            !.fromArray = parseConnected(Arr(StrSeq(norm.s))),
                            !.fromString = parseConnected(Str(norm.text)),
                            !.mwFromArray = MwNormalize(Arr(StrSeq(norm.s))),
                            !.mwFromString = MwNormalize(Str(norm.text))]
    /\ UNCHANGED <<store, seed, variant, bound, req>>

SpecNormalize == InitNormalize /\ [][Normalize]_vars

----------------------------------------------------------------------------
(* Specifications: every variant, each variant alone, and every variant    *)
(* with the requests issued one at a time.                                 *)

Next == NextProxy \/ NextMiddleware \/ NextLegacy

Spec == Init /\ [][Next]_vars

InitProxy == Init /\ variant = "proxy"

SpecProxy == InitProxy /\ [][NextProxy]_vars

InitMiddleware == Init /\ variant = "middleware"

SpecMiddleware == InitMiddleware /\ [][NextMiddleware]_vars

InitLegacy == Init /\ variant = "legacy"

SpecLegacy == InitLegacy /\ [][NextLegacy]_vars

\* No other request is between its first step and its return.
NoneInFlight(c) == \A d \in Requests \ {c} : req[d].pc \in {"idle", "done"}

NextSequential ==
    \E c \in Requests :
        /\ NoneInFlight(c)
        /\ ProxyStep(c) \/ MwStep(c) \/ LegacyStep(c)

SpecSequential == Init /\ [][NextSequential]_vars

----------------------------------------------------------------------------
(* Vocabulary of the properties *)

\* The room's connected sequence: what the stored text holds, read by the
\* normalization rule (absent, unparseable or no array: empty).
StoredSequence(h) ==
    IF h.has /\ JSONparse(h.connected).ok /\ JSONparse(h.connected).v.k = "arr"
    THEN JSONparse(h.connected).v.xs
    ELSE <<>>

Elements(xs) == {xs[i] : i \in 1..Len(xs)}

DistinctTokens(h) == Cardinality(Elements(StoredSequence(h)))

Min(a, b) == IF a < b THEN a ELSE b

Started(c) == req[c].pc # "idle"

Returned(c) == req[c].pc = "done"

\* The requests that took the slow path to room r: no usable cookie.
Attempts(r) == {c \in Requests : Started(c) /\ req[c].room = r /\ ~Truthy(req[c].cookie)}

Admitted(r) == {c \in Attempts(r) : req[c].result = <<1>>}

Refused(r) == {c \in Attempts(r) : req[c].result = <<0>>}

\* A store call of the request was rejected.
Failed(c) == req[c].calls.rejected > 0

----------------------------------------------------------------------------
(* C1: under proxy() and LUA_JOIN, a room that starts with at most N       *)
(* distinct tokens never holds more than N distinct tokens, whatever the   *)
(* requests and their interleaving.                                        *)

C1_CapacityInvariant ==
    \A r \in Rooms :
        DistinctTokens(seed[r]) <= bound => DistinctTokens(store[r]) <= bound

\* Two requests admitted and not yet answered, a third refused: the room is
\* at its bound of 2.
C1_Witness ==
    \E r \in Rooms :
        /\ bound = CapacityBound
        /\ DistinctTokens(seed[r]) = 0
        /\ DistinctTokens(store[r]) = bound
        /\ Cardinality({c \in Admitted(r) : req[c].pc = "evaluated"}) = 2
        /\ Refused(r) # {}

----------------------------------------------------------------------------
(* C2: K requests without a cookie race for one fresh room with bound N.   *)
(* Once all K are answered (no store call rejected), exactly min(K, N)     *)
(* got script result 1 and the other K - min(K, N) got 0; none got -1; and *)
(* the script refuses only when the room holds at least N distinct tokens. *)

Fresh(r) == seed[r].exists /\ StoredSequence(seed[r]) = <<>>

AllAnswered(r) == \A c \in Attempts(r) : Returned(c) /\ ~Failed(c)

C2_Counts ==
    \A r \in Rooms :
        Fresh(r) /\ AllAnswered(r) =>
            LET K == Cardinality(Attempts(r)) IN
            /\ Cardinality(Admitted(r)) = Min(K, bound)
            /\ Cardinality(Refused(r)) = K - Min(K, bound)
            /\ \A c \in Attempts(r) : req[c].result # <<-1>>

C2_NoFalseDenial ==
    \A c \in Requests :
        req[c].pc = "idle" /\ req'[c].result = <<0>> =>
            DistinctTokens(store[req'[c].room]) >= bound

C2_RaceSafety == [](C2_Counts) /\ [][C2_NoFalseDenial]_vars

\* Three requests raced for a fresh room with bound 2 and all are answered:
\* two admitted, one redirected with roomFull.
C2_Witness ==
    \E r \in Rooms :
        /\ bound = CapacityBound
        /\ Fresh(r) /\ AllAnswered(r)
        /\ Cardinality(Attempts(r)) = 3
        /\ Cardinality(Admitted(r)) = 2
        /\ \E c \in Refused(r) : req[c].resp = Response("roomFull")

----------------------------------------------------------------------------
(* C3: attempts issued one at a time against a fresh room with bound N     *)
(* (no store call rejected): the first N get script result 1, every later  *)
(* one gets 0, and the token of every admitted attempt is in the stored    *)
(* sequence that the later attempts read.                                  *)

Earlier(r, c) == {d \in Attempts(r) : d < c}

C3_SequentialOrder ==
    \A r \in Rooms :
        variant = "proxy" /\ Fresh(r) /\ (\A c \in Attempts(r) : ~Failed(c)) =>
            \A c \in Attempts(r) :
                /\ req[c].result =
                     (IF Cardinality(Earlier(r, c)) < bound THEN <<1>> ELSE <<0>>)
                /\ req[c].result = <<1>> =>
                     Str(req[c].token) \in Elements(StoredSequence(store[r]))

\* Bound 2: the first and the second attempt admitted, the third refused.
C3_Witness ==
    \E r \in Rooms :
        /\ variant = "proxy" /\ bound = CapacityBound /\ Fresh(r)
        /\ Attempts(r) = {1, 2, 3}
        /\ \A c \in Attempts(r) : Returned(c)
        /\ req[1].resp = NextWithCookie(nanoid(1))
        /\ req[2].resp = NextWithCookie(nanoid(2))
        /\ req[3].resp = Response("roomFull")

----------------------------------------------------------------------------
(* C4: a request without a cookie for a room key that does not exist       *)
(* changes nothing in the store and, unless its store call is rejected,    *)
(* is answered with the notFound redirect and no cookie (under proxy() the *)
(* script result is -1); a key that was never created stays absent.        *)

C4_FirstStep ==
    \A c \in Requests :
        /\ req[c].pc = "idle" /\ req'[c].pc # "idle"
        /\ ~Truthy(req'[c].cookie)
        /\ ~store[req'[c].room].exists
        => /\ store' = store
           /\ \/ req'[c].calls.rejected > 0
              \/ variant = "proxy" /\ req'[c].result = <<-1>>
              \/ variant # "proxy" /\ req'[c].resp = Response("notFound")

C4_Answer ==
    /\ \A c \in Requests :
          req[c].result = <<-1>> /\ Returned(c) => req[c].resp = Response("notFound")
    /\ \A r \in Rooms : ~seed[r].exists => store[r] = NoRoom

C4_MissingRoom == [](C4_Answer) /\ [][C4_FirstStep]_vars

\* proxy() answered a request for an absent room: result -1, notFound.
C4_Witness ==
    \E c \in Requests :
        /\ variant = "proxy"
        /\ Returned(c) /\ ~req[c].cookie.has
        /\ req[c].result = <<-1>>
        /\ req[c].resp = Response("notFound")
        /\ store[req[c].room] = NoRoom

----------------------------------------------------------------------------
(* C5: a script run that returns 0 (room full) leaves the store as it was, *)
(* text for text; its candidate token is not in the room's sequence and    *)
(* the response is the roomFull redirect, without a cookie.                *)

C5_ScriptStep ==
    \A c \in Requests :
        req[c].pc = "idle" /\ req'[c].result = <<0>> => store' = store

C5_Response ==
    \A c \in Requests :
        req[c].result = <<0>> =>
            /\ ~req[c].resp.cookie.has
            /\ Returned(c) => req[c].resp = Response("roomFull")
            /\ Str(req[c].token) \notin Elements(StoredSequence(store[req[c].room]))

C5_RoomFullNoMutation == [](C5_Response) /\ [][C5_ScriptStep]_vars

\* A refused request is answered; its room still holds the seeded
\* duplicates.
C5_Witness ==
    \E c \in Requests :
        /\ req[c].result = <<0>> /\ Returned(c)
        /\ req[c].resp = Response("roomFull")
        /\ store[req[c].room] = seed[req[c].room]
        /\ Len(StoredSequence(store[req[c].room])) > DistinctTokens(store[req[c].room])

----------------------------------------------------------------------------
(* C6: the decision counts distinct tokens, not entries.  With attempts    *)
(* issued one at a time (no store call rejected) against a room seeded     *)
(* with d distinct tokens, under the script and under middleware(): an     *)
(* attempt is admitted iff fewer than N - d attempts came before it, so    *)
(* the room admits exactly N - d further tokens, however many duplicate    *)
(* entries it holds.                                                       *)

GotCookie(c) == req[c].resp.cookie.has

C6_DuplicateTolerance ==
    \A r \in Rooms :
        /\ variant \in {"proxy", "middleware"}
        /\ seed[r].exists
        /\ AllAnswered(r)
        => \A c \in Attempts(r) :
              /\ GotCookie(c) <=>
                    Cardinality(Earlier(r, c)) < bound - DistinctTokens(seed[r])
              /\ ~GotCookie(c) => req[c].resp = Response("roomFull")

\* A room seeded with ["a","a"] and bound 2: the first attempt is admitted,
\* the second refused.
C6_Witness ==
    \E r \in Rooms :
        /\ variant = "proxy" /\ bound = CapacityBound
        /\ Len(StoredSequence(seed[r])) = 2 /\ DistinctTokens(seed[r]) = 1
        /\ Attempts(r) = {1, 2} /\ AllAnswered(r)
        /\ GotCookie(1)
        /\ req[2].resp = Response("roomFull")
        /\ Len(StoredSequence(store[r])) = 3

----------------------------------------------------------------------------
(* C7: under proxy(), a request that carries a non-empty cookie for its    *)
(* room is passed through in one step that leaves the store as it was,     *)
(* issues no store call (no read, no script, no write) and sets no cookie, *)
(* whether the room exists or not and whether or not it holds the token.   *)

C7_Step ==
    \A c \in Requests :
        req[c].pc = "idle" /\ req'[c].pc # "idle" /\ Truthy(req'[c].cookie) =>
            /\ store' = store
            /\ req'[c].pc = "done"
            /\ req'[c].resp = Response("next")
            /\ req'[c].calls = NoCalls

C7_FastPathNoOp == [][C7_Step]_vars

\* Passed through with no store call: once for a room that does not exist
\* (so the token is in no sequence), once for a full room that holds the
\* token.
C7_Witness ==
    \E c, d \in Requests :
        /\ Truthy(req[c].cookie) /\ Truthy(req[d].cookie)
        /\ req[c].resp = Response("next") /\ req[d].resp = Response("next")
        /\ req[c].calls = NoCalls /\ req[d].calls = NoCalls
        /\ ~store[req[c].room].exists
        /\ bound = CapacityBound
        /\ DistinctTokens(store[req[d].room]) >= bound
        /\ Str(req[d].cookie.val) \in Elements(StoredSequence(store[req[d].room]))

----------------------------------------------------------------------------
(* C8: in every variant, a response that sets the token cookie is returned *)
(* only after the store call that wrote the token into the room's          *)
(* connected has completed: the script returned 1, or the hset resolved.   *)
(* A script result of -1 or 0, or a rejected store call, never leads to a  *)
(* response with a cookie.                                                 *)

WriteCompleted(c) ==
    IF variant = "proxy"
    THEN req[c].result = <<1>> /\ req[c].calls.evals = 1
    ELSE req[c].calls.writes = 1

C8_CookieImpliesWrite ==
    \A c \in Requests :
        /\ GotCookie(c) =>
              /\ Returned(c)
              /\ req[c].resp = NextWithCookie(req[c].token)
              /\ WriteCompleted(c)
              /\ ~Failed(c)
        /\ req[c].result \in {<<-1>>, <<0>>} => ~GotCookie(c)

\* The step in which the store call completes puts the token in the
\* room's sequence.
C8_WriteRecordsToken ==
    \A c \in Requests :
        /\ \/ req[c].result = <<>> /\ req'[c].result = <<1>>
           \/ req'[c].calls.writes > req[c].calls.writes
        /\ req'[c].calls.rejected = 0
        => Str(req'[c].token) \in Elements(StoredSequence(store'[req'[c].room]))

C8_CookieAfterAdmission == [](C8_CookieImpliesWrite) /\ [][C8_WriteRecordsToken]_vars

\* middleware() has written and not yet answered, while a request whose
\* hset was rejected is answered without a cookie.
C8_Witness ==
    \E c, d \in Requests :
        /\ variant = "middleware"
        /\ req[c].pc = "written" /\ ~GotCookie(c)
        /\ Str(req[c].token) \in Elements(StoredSequence(store[req[c].room]))
        /\ Returned(d) /\ req[d].calls.writes = 1 /\ Failed(d) /\ ~GotCookie(d)

----------------------------------------------------------------------------
(* C9: under proxy(), a request whose redis.eval is rejected ends with the *)
(* error, uncaught: no pass-through, no redirect, no cookie, no script     *)
(* result taken as an outcome, and exactly one script invocation.          *)

C9_TransportFailure ==
    \A c \in Requests :
        /\ req[c].calls.evals <= 1
        /\ Failed(c) =>
              /\ Returned(c)
              /\ req[c].resp = Response("error")
              /\ req[c].result = <<>>
              /\ req[c].calls = [NoCalls EXCEPT !.evals = 1, !.rejected = 1]

\* The reply of a script run that admitted the token was lost: the token is
\* stored, the request ended with the error.
C9_Witness ==
    \E c \in Requests :
        /\ Failed(c) /\ req[c].resp = Response("error")
        /\ Str(req[c].token) \in Elements(StoredSequence(store[req[c].room]))

----------------------------------------------------------------------------
(* C10: for every token sequence s, parseConnected and the normalization   *)
(* of middleware.ts give s itself, whether they are handed s as an array   *)
(* or the JSON text of s as a string.                                      *)

C10_RoundTrip ==
    norm.pc = "out" =>
        /\ norm.fromArray = StrSeq(norm.s)
        /\ norm.fromString = norm.fromArray
        /\ norm.mwFromArray = StrSeq(norm.s)
        /\ norm.mwFromString = norm.mwFromArray

\* Both readers were run on a two-token sequence whose text needs escapes,
\* written by cjson.encode.
C10_Witness ==
    /\ norm.pc = "out"
    /\ norm.s = << <<"a", "/">>, <<"\"">> >>
    /\ norm.text = Encode(Arr(StrSeq(norm.s)), TRUE)
    /\ norm.text # JSONstringify(Arr(StrSeq(norm.s)))
    /\ Len(norm.fromString) = 2

----------------------------------------------------------------------------
(* authMiddleware of src/unnamed/part_000: the re-validation of a token on *)
(* an API call.  A request without query.roomId has the room "".          *)

AuthKinds == {"authorized", "AuthError"}

\* hget(key, "connected"): null for a key or a field that does not exist.
HGet(h) == {meta.connected : meta \in HGetAll(h)}

\* authDerive with the check of line 55 left out.
authDeriveAnyToken(roomId, ck, raw) ==
    IF roomId = "" \/ ~Truthy(ck) THEN "AuthError" ELSE "authorized"

\* lines 48-59: the outcome, given what hget returned.
authDerive(roomId, ck, raw) ==
    IF roomId = "" \/ ~Truthy(ck) THEN "AuthError"
    ELSE IF \E i \in 1..Len(parseConnected(raw)) : parseConnected(raw)[i] = Str(ck.val)
         THEN "authorized"
         ELSE "AuthError"

\* The cookies an API call can carry: those of Cookies, and every token an
\* admission request has generated.
AuthCookies ==
    InitialCookies \cup {Cookie(req[d].token) : d \in {e \in Requests : req[e].token # <<>>}}

\* lines 48-50: roomId or token missing; the store is not asked.
AuthMissing(c) ==
    /\ CanStart(c)
    /\ \E r \in Rooms \cup {""}, ck \in AuthCookies :
         /\ r = "" \/ ~Truthy(ck)
         /\ req' = [req EXCEPT ![c] =
                      [Start(c, r, ck) EXCEPT !.pc = "done",
                                              !.resp = Response(authDerive(r, ck, Absent))]]
    /\ UNCHANGED <<store, fixed>>

\* lines 52-59: hget, parseConnected, includes.
AuthHGet(c) ==
    /\ CanStart(c)
    /\ \E r \in Rooms, ck \in AuthCookies :
         /\ Truthy(ck)
         /\ \E raw \in HGet(store[r]) :
              req' = [req EXCEPT ![c] =
                        [Start(c, r, ck) EXCEPT !.pc = "done",
                                                !.calls.reads = @ + 1,
                                                !.resp = Response(authDerive(r, ck, raw))]]
    /\ UNCHANGED <<store, fixed>>

\* line 52: redis.hget rejects; the error is no AuthError.
AuthHGetFails(c) ==
    /\ CanStart(c)
    /\ \E r \in Rooms, ck \in AuthCookies :
         /\ Truthy(ck)
         /\ req' = [req EXCEPT ![c] =
                      [Start(c, r, ck) EXCEPT !.pc = "done",
                                              !.calls.reads = @ + 1,
                                              !.calls.rejected = @ + 1,
                                              !.resp = Response("error")]]
    /\ UNCHANGED <<store, fixed>>

authMiddleware(c) ==
    \/ AuthMissing(c)
    \/ AuthHGet(c)
    \/ AuthHGetFails(c)

NextAuth == \E c \in Requests : ProxyEval(c) \/ ProxyRespond(c) \/ authMiddleware(c)

\* r1 in every seeded shape, r2 never created.
InitAuth == InitProxy /\ bound = CapacityBound /\ ~store["r2"].exists

\* proxy() admits, authMiddleware re-validates.
SpecAuth == InitAuth /\ [][NextAuth]_vars

----------------------------------------------------------------------------
(* C11: authMiddleware authorizes a call iff roomId and the room's cookie  *)
(* are both present and the token is an element of the room's connected    *)
(* sequence; otherwise (the hget having resolved) it raises AuthError.     *)
(* With roomId or token missing it issues no store call; it never writes   *)
(* and never sets a cookie.                                                *)

IsAuthCall(q) == q.resp.kind \in AuthKinds \/ (q.resp.kind = "error" /\ q.token = <<>>)

C11_Step ==
    \A c \in Requests :
        req[c].pc = "idle" /\ IsAuthCall(req'[c]) =>
            LET q == req'[c]
                present == q.room # "" /\ Truthy(q.cookie) IN
            /\ store' = store
            /\ q.calls.writes = 0 /\ q.calls.evals = 0
            /\ q.resp.cookie = NoCookie
            /\ ~present => q.calls = NoCalls /\ q.resp.kind = "AuthError"
            /\ present /\ q.calls.rejected = 0 =>
                  /\ q.resp.kind \in AuthKinds
                  /\ q.resp.kind = "authorized" <=>
                        Str(q.cookie.val) \in Elements(StoredSequence(store[q.room]))

C11_Revalidation == [][C11_Step]_vars

\* A token that proxy() admitted is authorized; the same call with a token
\* the room does not hold is rejected.
C11_Witness ==
    \E c, d, e \in Requests :
        /\ req[c].result = <<1>> /\ Returned(c)
        /\ req[d].resp = Response("authorized")
        /\ req[d].cookie = Cookie(req[c].token) /\ req[d].room = req[c].room
        /\ req[e].resp = Response("AuthError") /\ req[e].calls.reads = 1
        /\ req[e].room = req[c].room

----------------------------------------------------------------------------
(* One browser: its requests are issued one at a time, each carrying the   *)
(* cookie the browser holds for the requested path under the name the      *)
(* handler reads.                                                          *)

\* CookieScope as the earlier proxy() has it for every variant.
CookieScopeShared(r) == [name |-> <<"x-auth-token">>, path |-> "/"]

\* The name and the path of a room's cookie: proxy.ts lines 59 and 102-103,
\* middleware.ts lines 61 and 101-102, part_001 lines 29 and 45-46.
CookieScope(r) ==
    IF variant = "legacy"
    THEN [name |-> <<"x-auth-token">>, path |-> "/"]
    ELSE [name |-> <<"x-auth-token-", r>>, path |-> r]

\* A cookie of path "/" goes with every request, one of path /room/<r> with
\* the requests for r.
PathMatches(path, r) == path = "/" \/ path = r

\* The responses whose cookie the browser sends to room r under the name
\* the handler looks up there.
SetFor(r) ==
    {d \in Requests :
        /\ req[d].pc = "done" /\ req[d].resp.cookie.has
        /\ CookieScope(req[d].room).name = CookieScope(r).name
        /\ PathMatches(CookieScope(req[d].room).path, r)}

\* What the handler finds: the cookie set last.
Presented(r) ==
    IF SetFor(r) = {} THEN NoCookie
    ELSE req[CHOOSE d \in SetFor(r) : \A e \in SetFor(r) : e <= d].resp.cookie

NextClient ==
    \E c \in Requests :
        /\ NoneInFlight(c)
        /\ ProxyStep(c) \/ MwStep(c)
        /\ req[c].pc = "idle" => req'[c].cookie = Presented(req'[c].room)

InitClient == Init /\ variant \in {"proxy", "middleware"} /\ bound = CapacityBound

SpecClient == InitClient /\ [][NextClient]_vars

----------------------------------------------------------------------------
(* C12: under proxy.ts and middleware.ts a browser presents to a room only *)
(* a cookie that an admission to that same room has set.  A request for a  *)
(* room the browser was not admitted to carries no cookie and takes the    *)
(* slow path (under proxy(), one script invocation), and an admission to   *)
(* another room leaves the cookie of the first room in place.              *)

AdmittedTo(r) == {d \in Requests : Returned(d) /\ GotCookie(d) /\ req[d].room = r}

C12_RoomScopedTokens ==
    /\ \A c \in Requests :
          Started(c) /\ req[c].cookie.has =>
              \E d \in AdmittedTo(req[c].room) : d < c /\ req[d].resp.cookie = req[c].cookie
    /\ \A c \in Requests :
          Started(c) /\ (\A d \in AdmittedTo(req[c].room) : d >= c) =>
              /\ ~req[c].cookie.has
              /\ req[c].calls # NoCalls
              /\ variant = "proxy" => req[c].calls.evals = 1
              /\ Returned(c) => req[c].resp # Response("next")
    /\ \A r \in Rooms :
          AdmittedTo(r) # {} =>
              \E d \in AdmittedTo(r) : Presented(r) = req[d].resp.cookie

\* Admitted to r1, then to r2 by a script invocation, then back to r1 with
\* the first token: the fast path.
C12_Witness ==
    /\ variant = "proxy"
    /\ req[1].room = "r1" /\ req[1].resp = NextWithCookie(nanoid(1))
    /\ req[2].room = "r2" /\ ~req[2].cookie.has /\ req[2].calls.evals = 1
    /\ req[2].resp = NextWithCookie(nanoid(2))
    /\ req[3].room = "r1" /\ req[3].cookie = Cookie(nanoid(1))
    /\ req[3].resp = Response("next") /\ req[3].calls = NoCalls
    /\ Presented("r1") = Cookie(nanoid(1)) /\ Presented("r2") = Cookie(nanoid(2))

----------------------------------------------------------------------------
(* C13: under middleware.ts, whatever the interleaving of the hgetall and  *)
(* hset calls of requests without a cookie for one existing room, the room *)
(* never holds more than 2 distinct tokens and at most 2 of the requests   *)
(* are answered with a token cookie.                                       *)

CookiesSet(r) == {c \in Attempts(r) : GotCookie(c)}

C13_StoredDistinct ==
    \A r \in Rooms : seed[r].exists => DistinctTokens(store[r]) <= MiddlewareCap

C13_MiddlewareCapacity ==
    /\ C13_StoredDistinct
    /\ \A r \in Rooms : seed[r].exists => Cardinality(CookiesSet(r)) <= MiddlewareCap

\* Three requests read the fresh room before any of them wrote: all three
\* hold a token cookie, the room records one token.
C13_Witness ==
    \E r \in Rooms :
        /\ variant = "middleware"
        /\ seed[r].exists /\ StoredSequence(seed[r]) = <<>>
        /\ Cardinality(CookiesSet(r)) = 3
        /\ \A c \in CookiesSet(r) : ~Failed(c)
        /\ DistinctTokens(store[r]) = 1

----------------------------------------------------------------------------
(* C14: under middleware.ts, a token that a request wrote and returned as  *)
(* a cookie is an element of the room's connected sequence in every later  *)
(* state, so authMiddleware authorizes it.                                 *)

C14_NoLostAdmission ==
    \A c \in Requests :
        GotCookie(c) =>
            /\ Str(req[c].token) \in Elements(StoredSequence(store[req[c].room]))
            /\ \A raw \in HGet(store[req[c].room]) :
                  authDerive(req[c].room, req[c].resp.cookie, raw) = "authorized"

\* Two requests read the room's sequence s before either wrote: both hold
\* a cookie, the room records s and the token of the later writer only,
\* and authMiddleware rejects the other token.
C14_Witness ==
    \E c, d \in Requests :
        /\ variant = "middleware"
        /\ req[c].room = req[d].room
        /\ GotCookie(c) /\ GotCookie(d) /\ ~Failed(c) /\ ~Failed(d)
        /\ StoredSequence(store[req[c].room]) =
              Append(StoredSequence(seed[req[c].room]), Str(req[d].token))
        /\ \A raw \in HGet(store[req[c].room]) :
              authDerive(req[c].room, req[c].resp.cookie, raw) = "AuthError"

----------------------------------------------------------------------------
(* C15: under middleware.ts, a request that carries a non-empty cookie for *)
(* its room issues no store call and is passed through, whether the room   *)
(* exists or not.                                                          *)

C15_MwFastPathNoStore ==
    \A c \in Requests :
        variant = "middleware" /\ Started(c) /\ Truthy(req[c].cookie) =>
            /\ req[c].calls = NoCalls
            /\ Returned(c) => req[c].resp = Response("next")

\* A request with a cookie for a room that does not exist: one hgetall,
\* answered with the notFound redirect.
C15_Witness ==
    \E c \in Requests :
        /\ variant = "middleware"
        /\ Truthy(req[c].cookie) /\ Returned(c) /\ ~Failed(c)
        /\ req[c].calls.reads = 1
        /\ ~store[req[c].room].exists
        /\ req[c].resp = Response("notFound")

----------------------------------------------------------------------------
(* LUA_JOIN invoked directly (variant "script"), with any candidate token, *)
(* against a room whose connected field holds any of the shapes a reader   *)
(* can meet; and one call of the JavaScript readers on what hget returns.  *)

\* "[\"a\"]", the JSON text of a string that is itself JSON text.
QuotedArrayText == JSONstringify(Str(JSONstringify(Arr(<<Str(<<"a">>)>>))))

ScriptSeedTexts ==
    SeedTexts \cup
    { <<"5">>,
      <<"n", "u", "l", "l">>,
      JSONstringify(Str(<<"a">>)),
      QuotedArrayText,
      JSONstringify(Obj(<<Mem(<<"x">>, Str(<<"a">>))>>)) }

InitScript ==
    /\ store \in {f \in [Rooms -> {NoRoom, RoomNoField} \cup {Room(t) : t \in ScriptSeedTexts}] :
                    f["r1"].exists /\ ~f["r2"].exists}
    /\ seed = store
    /\ variant = "script"
    /\ bound \in Bounds
    /\ req = [c \in Requests |-> IdleRequest]
    /\ norm = NormIdle

\* ARGV[1]: a fresh token, a token the room may hold, or the candidate of
\* an earlier invocation.
ScriptTokens(c) ==
    {nanoid(c), <<"a">>} \cup {req[d].token : d \in {e \in Requests : req[e].token # <<>>}}

\* redis.eval(LUA_JOIN, [key], [token, bound]) as one step of the store.
ScriptEval(c) ==
    /\ variant = "script"
    /\ CanStart(c)
    /\ \E r \in Rooms, token \in ScriptTokens(c) :
         \E out \in LuaJoin(store[r], token, bound) :
            /\ store' = [store EXCEPT ![r] = out.hash]
            /\ req' = [req EXCEPT ![c] =
                         [Start(c, r, NoCookie) EXCEPT !.pc = "done",
                                                       !.token = token,
                                                       !.result = <<out.result>>,
                                                       !.calls.evals = @ + 1]]
    /\ UNCHANGED fixed

\* parseConnected and the normalization of middleware.ts, each on a value
\* hget gives for the connected field of r1.
ReadConnected ==
    /\ variant = "script"
    /\ norm.pc = "idle"
    /\ \E x, y \in HGet(store["r1"]) :
         norm' = [NormIdle EXCEPT !.pc = "out",
                                  !.text = store["r1"].connected,
                                  !.fromArray = parseConnected(x),
                                  !.fromString = parseConnected(y),
                                  !.mwFromArray = MwNormalize(x),
                                  !.mwFromString = MwNormalize(y)]
    /\ UNCHANGED <<store, seed, variant, bound, req>>

NextScript == (\E c \in Requests : ScriptEval(c)) \/ ReadConnected

SpecScript == InitScript /\ [][NextScript]_vars

----------------------------------------------------------------------------
(* C16: for an existing room whose connected field is absent, cannot be    *)
(* parsed or parses to something that is no sequence, the script (N >= 1)  *)
(* returns 1 and leaves connected equal to the one-element sequence of the *)
(* candidate token, and parseConnected and the normalization of            *)
(* middleware.ts return the empty sequence for the same stored value.      *)

\* The text of a connected field that is no sequence (a field that is not
\* there has the empty text).
MalformedText(t) == ~JSONparse(t).ok \/ JSONparse(t).v.k # "arr"

C16_Script ==
    /\ variant = "script" /\ bound >= 1
    /\ MalformedText(seed["r1"].connected)
    /\ req[1].pc = "done" /\ req[1].room = "r1" /\ req[2].pc = "idle"
    => /\ req[1].result = <<1>>
       /\ store["r1"].has
       /\ store["r1"].connected \in
             {Encode(Arr(<<Str(req[1].token)>>), slash) : slash \in BOOLEAN}

C16_Readers ==
    norm.pc = "out" /\ MalformedText(norm.text) =>
        /\ norm.fromArray = <<>> /\ norm.fromString = <<>>
        /\ norm.mwFromArray = <<>> /\ norm.mwFromString = <<>>

C16_DegradesToEmpty == C16_Script /\ C16_Readers

\* The field held the JSON object {"x":"a"}: the script returned 1 and the
\* field holds an object again, which every reader takes for empty.
C16_Witness ==
    /\ variant = "script"
    /\ seed["r1"].connected = JSONstringify(Obj(<<Mem(<<"x">>, Str(<<"a">>))>>))
    /\ req[1].result = <<1>> /\ req[1].room = "r1" /\ req[2].pc = "idle"
    /\ JSONparse(store["r1"].connected).ok
    /\ JSONparse(store["r1"].connected).v.k = "obj"
    /\ Len(JSONparse(store["r1"].connected).v.xs) = 2
    /\ StoredSequence(store["r1"]) = <<>>

----------------------------------------------------------------------------
(* C17: a script invocation that returns 1 on a connected value that is a  *)
(* sequence s (a JSON array, or a value the script takes for the empty     *)
(* sequence) leaves connected = s followed by the candidate token: the     *)
(* length grows by one, s with its duplicates is kept in order as the      *)
(* prefix, and the distinct count grows by one iff the candidate was not   *)
(* in s.  A candidate that s already holds is appended and admitted like   *)
(* any other, whenever the room is not full.                               *)

C17_Step ==
    \A c \in Requests :
        req[c].pc = "idle" /\ req'[c].pc = "done"
        /\ store[req'[c].room].exists
        /\ LuaConnected(store[req'[c].room]).k = "arr" =>
            LET r == req'[c].room
                s == StoredSequence(store[r])
                after == StoredSequence(store'[r])
                candidate == Str(req'[c].token) IN
            /\ req'[c].result = <<1>> <=> Cardinality(Elements(s)) < bound
            /\ req'[c].result = <<1>> =>
                  /\ after = s \o <<candidate>>
                  /\ Len(after) = Len(s) + 1
                  /\ SubSeq(after, 1, Len(s)) = s
                  /\ Cardinality(Elements(after)) =
                        Cardinality(Elements(s)) + (IF candidate \in Elements(s) THEN 0 ELSE 1)

C17_PureAppend == [][C17_Step]_vars

\* The room held ["a"]: the candidate "a" was admitted and appended, then
\* the same candidate once more, then a fresh one.
C17_Witness ==
    /\ variant = "script" /\ bound = CapacityBound
    /\ StoredSequence(seed["r1"]) = <<Str(<<"a">>)>>
    /\ \A c \in Requests : c <= 3 => req[c].room = "r1" /\ req[c].result = <<1>>
    /\ req[1].token = <<"a">> /\ req[2].token = <<"a">> /\ req[3].token = nanoid(3)
    /\ StoredSequence(store["r1"]) =
          <<Str(<<"a">>), Str(<<"a">>), Str(<<"a">>), Str(nanoid(3))>>

----------------------------------------------------------------------------
(* One whole admission of request c, without a cookie, to room r on the    *)
(* store st, none of its store calls rejected: the stores and responses it *)
(* can end with.                                                           *)

AfterRead(c, r, meta) ==
    IF variant = "middleware" THEN MwAfterRead(c, r, NoCookie, meta)
    ELSE LegacyAfterRead(c, r, NoCookie, meta)

Admission(st, c, r) ==
    IF variant = "proxy"
    THEN {[store |-> [st EXCEPT ![r] = out.hash],
           resp |-> ProxyResponse(out.result, nanoid(c))] :
             out \in LuaJoin(st[r], nanoid(c), bound)}
    ELSE {LET q == AfterRead(c, r, meta) IN
          IF q.pc = "writing"
          THEN [store |-> [st EXCEPT ![r] =
                             HSetConnected(@, JSONstringify(Arr(q.local)))],
                resp |-> NextWithCookie(q.token)]
          ELSE [store |-> st, resp |-> q.resp] :
             meta \in HGetAll(st[r])}

\* Every variant, with the requests that race limited to FrameRequests.
FrameRequests == 2

NextFrame == \E c \in 1..FrameRequests : ProxyStep(c) \/ MwStep(c) \/ LegacyStep(c)

SpecFrame == Init /\ [][NextFrame]_vars

----------------------------------------------------------------------------
(* C18: a step of an admission request, in every variant, changes at most  *)
(* the connected field of the room the request addresses: that room's      *)
(* createdAt and existence and every other room's hash stay as they were;  *)
(* and two admissions to different rooms, run in either order from any     *)
(* store the requests leave behind, end with the same store and the same   *)
(* two responses.                                                          *)

C18_Frame ==
    \A c \in Requests :
        req'[c] # req[c] =>
            /\ \A r \in Rooms \ {req'[c].room} : store'[r] = store[r]
            /\ store'[req'[c].room].createdAt = store[req'[c].room].createdAt
            /\ store'[req'[c].room].exists = store[req'[c].room].exists

InOrder(c, r, d, q) ==
    UNION {{<<b.store, a.resp, b.resp>> : b \in Admission(a.store, d, q)} :
             a \in Admission(store, c, r)}

\* Stated for the stores that are met once the requests have ended (every
\* request can end without another change of the store, so these are all
\* the stores that are met), with the candidate tokens of requests 1 and 2.
C18_Commute ==
    (\A e \in 1..FrameRequests : req[e].pc = "done") =>
        InOrder(1, "r1", 2, "r2") =
           {<<o[1], o[3], o[2]>> : o \in InOrder(2, "r2", 1, "r1")}

C18_OnlyConnected == [](C18_Commute) /\ [][C18_Frame]_vars

\* Two requests, one admitted to each room and neither answered yet: both
\* rooms hold a new token and their createdAt.
C18_Witness ==
    \E c, d \in Requests :
        /\ req[c].room = "r1" /\ req[d].room = "r2"
        /\ req[c].pc \in {"evaluated", "written"} /\ req[d].pc \in {"evaluated", "written"}
        /\ Str(req[c].token) \in Elements(StoredSequence(store["r1"]))
        /\ Str(req[d].token) \in Elements(StoredSequence(store["r2"]))
        /\ store["r1"].createdAt = <<"7">> /\ store["r2"].createdAt = <<"7">>
        /\ store["r1"] # seed["r1"] /\ store["r2"] # seed["r2"]

----------------------------------------------------------------------------
(* The room's TTL (set at creation, middleware.ts line 87) runs out: Redis *)
(* deletes the key, at any moment.  Nothing in these files creates a room. *)

ExpireRoom(r) ==
    /\ store[r].exists
    /\ store' = [store EXCEPT ![r] = NoRoom]
    /\ UNCHANGED <<req, fixed>>

NextExpiry == NextProxy \/ NextMiddleware \/ (\E r \in Rooms : ExpireRoom(r))

InitExpiry == Init /\ variant \in {"proxy", "middleware"} /\ bound = CapacityBound

SpecExpiry == InitExpiry /\ [][NextExpiry]_vars

----------------------------------------------------------------------------
(* C19: under proxy.ts and middleware.ts a room key that is absent stays   *)
(* absent in every step (no step here creates a room), also when the key   *)
(* was deleted while requests for it were in flight; and a request whose   *)
(* store call runs against the absent key is not admitted.                 *)

C19_Step ==
    /\ \A r \in Rooms : ~store[r].exists => ~store'[r].exists
    /\ \A c \in Requests :
          req'[c].calls # req[c].calls /\ ~store[req'[c].room].exists =>
              /\ req'[c].pc # "written"
              /\ req'[c].result # <<1>>

C19_NoResurrection == [][C19_Step]_vars

\* middleware() read the room, the key expired, the hset created it again
\* with the connected field alone, and the request got its cookie.
C19_Witness ==
    \E c \in Requests :
        /\ variant = "middleware"
        /\ GotCookie(c) /\ ~Failed(c)
        /\ store[req[c].room].exists
        /\ store[req[c].room].createdAt = <<>>
        /\ seed[req[c].room].createdAt = <<"7">>
        /\ StoredSequence(store[req[c].room]) = <<Str(req[c].token)>>

----------------------------------------------------------------------------
(* C20: the earlier proxy() decides as the script does.  For the first     *)
(* request to an existing room, carrying no token that the room holds      *)
(* (store calls not rejected): it is answered with the roomFull redirect   *)
(* and the room stays as it was iff the room holds 2 or more distinct      *)
(* tokens; otherwise it is passed through with a fresh token, which is     *)
(* appended to the room's sequence.                                        *)

C20_LegacyAsScript ==
    LET r == req[1].room
        s == StoredSequence(seed[r]) IN
    /\ variant = "legacy"
    /\ Returned(1) /\ ~Failed(1) /\ req[2].pc = "idle"
    /\ seed[r].exists
    /\ ~(Truthy(req[1].cookie) /\ Str(req[1].cookie.val) \in Elements(s))
    => IF Cardinality(Elements(s)) >= CapacityBound
       THEN req[1].resp = Response("roomFull") /\ store = seed
       ELSE /\ req[1].resp = NextWithCookie(nanoid(1))
            /\ StoredSequence(store[r]) = Append(s, Str(nanoid(1)))

\* The room holds ["a","a"], one distinct token: the earlier proxy() counts
\* two entries and answers roomFull.
C20_Witness ==
    /\ variant = "legacy"
    /\ Returned(1) /\ ~Failed(1) /\ req[2].pc = "idle"
    /\ ~req[1].cookie.has
    /\ StoredSequence(seed[req[1].room]) = <<Str(<<"a">>), Str(<<"a">>)>>
    /\ req[1].resp = Response("roomFull")
    /\ store = seed
    /\ \E out \in LuaJoin(seed[req[1].room], nanoid(1), CapacityBound) : out.result = 1

====
